---- MODULE Spec2Model ----
(***************************************************************************)
(* Model of pam.py: authenticate(username, password, service) and its      *)
(* conversation callback my_conv, run against a native PAM library whose   *)
(* primitives (pam_start, pam_authenticate, pam_end, calloc, strdup) are   *)
(* the environment: their status codes, handles and allocation results are *)
(* chosen nondeterministically.                                            *)
(*                                                                         *)
(* Each attempt is one thread calling authenticate; the locals of the      *)
(* call (handle, retval, e, the closed-over password) and the locals of    *)
(* the running my_conv invocation are functions of the attempt.            *)
(***************************************************************************)
EXTENDS Integers, Sequences, FiniteSets, TLC

\* ---------------------------------------------------------------- bounds
MaxCalls    == 2      \* authenticate calls per thread
MaxConv     == 2      \* my_conv invocations inside one pam_authenticate
MaxMsgs     == 2      \* n_messages of one my_conv invocation
MaxPwLen    == 1      \* characters of a password
MaxStatus   == 1      \* native status codes are 0..MaxStatus
MaxHandles  == 2      \* addresses the native module has for pam handles
MaxNames    == 3      \* library names a candidate can be
MaxSearch   == 2      \* entries of search_names

\* ------------------------------------------------------ program constants
PAM_PROMPT_ECHO_OFF == 1
PAM_PROMPT_ECHO_ON  == 2
PAM_ERROR_MSG       == 3
PAM_TEXT_INFO       == 4

\* the threads that may call authenticate; isolation between attempts is a
\* property of pairs, so two are modelled
Attempts    == {1, 2}
SeqAttempts == {1}
Status      == 0..MaxStatus
Handles     == 1..MaxHandles
\* the four defined message styles and one value that is none of them
Styles      == PAM_PROMPT_ECHO_OFF..(PAM_TEXT_INFO + 1)
\* code points a password is made of: NUL and one encoded on two bytes
Chars       == {0, 233}

RECURSIVE SeqsUpTo(_, _)
SeqsUpTo(S, n) ==
    IF n = 0 THEN {<<>>}
    ELSE LET shorter == SeqsUpTo(S, n - 1)
         IN  shorter \cup {Append(s, x) : s \in {t \in shorter : Len(t) = n - 1}, x \in S}

Passwords     == SeqsUpTo(Chars, MaxPwLen)
\* inputs of the interleaved specification: two passwords, short prompts
ConcPasswords == {<<233>>, <<233, 233>>}

\* a message array of n entries, indexed from 0 as the code indexes it
MessageArrays(n) == [0..(n - 1) -> Styles]

VARIABLES
    pc,          \* position of each attempt inside authenticate
    calls,       \* authenticate calls the attempt has made
    password,    \* the password argument my_conv closes over
    handle,      \* PamHandle.handle of the call
    retval,      \* local retval
    e,           \* local e
    result,      \* value authenticate returned
    trace,       \* native primitives the call invoked, in order
    n_messages,  \* my_conv argument
    messages,    \* my_conv argument
    p_response,  \* what my_conv stored in p_response[0], and the array behind it
    idx,         \* loop variable i of my_conv
    convRet,     \* status the last my_conv invocation handed to the native module
    convCount,   \* my_conv invocations inside the current pam_authenticate
    raised,      \* the last my_conv invocation ended by an exception
    allocFailed, \* calloc or strdup returned NULL during the current call
    readIdx,     \* indices of messages the invocation has read
    writeIdx,    \* indices of response slots the invocation has written
    native,      \* native module: owner of each handle address, 0 when free
    nStart,      \* pam_start calls so far
    nEnd,        \* pam_end calls so far
    heap,        \* native allocator: addresses allocated and still referenced
    delivered,   \* addresses the native module got from my_conv and has yet to free
    leaked,      \* a buffer allocated during the current call has no reference left
    loader       \* module import: the load_library call in progress and its locals

authVars == <<pc, calls, password, handle, retval, e, result, trace, n_messages,
              messages, p_response, idx, convRet, convCount, raised, allocFailed,
              readIdx, writeIdx, native, nStart, nEnd, heap, delivered, leaked>>

vars == <<authVars, loader>>

convVars == <<n_messages, messages, p_response, idx, readIdx, writeIdx>>

heapVars == <<heap, delivered, leaked>>

\* ------------------------------------------------------------ native data
NullPtr      == [null |-> TRUE, src |-> 0, bytes |-> <<>>, addr |-> 0]
\* a PamResponse as calloc leaves it: resp NULL, resp_retcode 0
ZeroResponse == [resp |-> NullPtr, resp_retcode |-> 0]
NullArray    == [null |-> TRUE, slots |-> <<>>, addr |-> 0]
NoArray      == [null |-> TRUE, slots |-> <<>>, addr |-> 0, unset |-> TRUE]

\* str.encode('utf-8') for code points below 0x800
Utf8Char(c) == IF c < 128 THEN <<c>> ELSE <<192 + (c \div 64), 128 + (c % 64)>>

RECURSIVE Encode(_)
Encode(s) == IF s = <<>> THEN <<>> ELSE Utf8Char(Head(s)) \o Encode(Tail(s))

\* the bytes of a C string: everything before the first NUL
RECURSIVE CStr(_)
CStr(b) == IF b = <<>> \/ Head(b) = 0 THEN <<>> ELSE <<Head(b)>> \o CStr(Tail(b))

\* the address the allocator hands out next: the lowest one not in use
Fresh == CHOOSE x \in 1..(Cardinality(heap) + 1) :
            x \notin heap /\ \A y \in 1..(x - 1) : y \in heap

\* calloc(n, sizeof(PamResponse)): n zeroed slots at a fresh address, or NULL
CALLOC(n) == { [null |-> FALSE, slots |-> [k \in 0..(n - 1) |-> ZeroResponse],
                addr |-> Fresh],
               NullArray }

\* strdup(bytes) called for the attempt `owner`: a fresh copy of the C string, or NULL
STRDUP(owner, b) == { [null |-> FALSE, src |-> owner, bytes |-> CStr(b), addr |-> Fresh],
                      NullPtr }

\* mutant: one callback, built once, closing over the first attempt's frame
Closure_shared(a) == 1

\* the attempt whose call frame the callback of attempt a closes over
Closure(a) == a

\* mutant: the password is handed out for the first invocation and then wiped
ClosedPassword_once(a) == IF convCount[a] > 1 THEN <<>> ELSE password[Closure(a)]

\* the value of `password` my_conv reads from its closure
ClosedPassword(a) == password[Closure(a)]

\* range(n_messages)
LoopRange(n) == 0..(n - 1)

\* outcomes <<status, handle written>> of pam_start for attempt a
PAM_START(a) ==
    LET free == {h \in Handles : native[h] = 0}
    IN  {<<0, h>> : h \in free}
        \cup {<<st, h>> : st \in Status \ {0}, h \in free \cup {0}}

\* mutant: the start-failure path ends the session with status 0
StartFailedEndArgs_zero(a) == <<handle[a], 0>>

\* arguments of the pam_end call on the start-failure path
StartFailedEndArgs(a) == <<handle[a], retval[a]>>

\* mutant: pam_end is given a null handle
EndArgs_nullHandle(a) == <<0, retval[a]>>

\* mutant: pam_end is always given status 0
EndArgs_zero(a) == <<handle[a], 0>>

\* arguments of the pam_end call after pam_authenticate
EndArgs(a) == <<handle[a], retval[a]>>

\* mutant: the status of pam_end is ignored
ReturnValue_ignoreEnd(rv, ev) == rv = 0

\* the expression authenticate returns
ReturnValue(rv, ev) == rv = 0 /\ ev = 0

Release(h) == IF h \in Handles THEN [native EXCEPT ![h] = 0] ELSE native

Call(op, h, arg, ret) == [op |-> op, handle |-> h, arg |-> arg, ret |-> ret]
\* the return field of a call that has not returned yet: no status code
Pending == MaxStatus + 1

\* ------------------------------------------------------------------ Init
\* no authenticate call has been made
AuthInit ==
    /\ pc = [a \in Attempts |-> "idle"]
    /\ calls = [a \in Attempts |-> 0]
    /\ password = [a \in Attempts |-> <<>>]
    /\ handle = [a \in Attempts |-> 0]
    /\ retval = [a \in Attempts |-> 0]
    /\ e = [a \in Attempts |-> 0]
    /\ result = [a \in Attempts |-> FALSE]
    /\ trace = [a \in Attempts |-> <<>>]
    /\ n_messages = [a \in Attempts |-> 0]
    /\ messages = [a \in Attempts |-> <<>>]
    /\ p_response = [a \in Attempts |-> NoArray]
    /\ idx = [a \in Attempts |-> 0]
    /\ convRet = [a \in Attempts |-> 0]
    /\ convCount = [a \in Attempts |-> 0]
    /\ raised = [a \in Attempts |-> FALSE]
    /\ allocFailed = [a \in Attempts |-> FALSE]
    /\ readIdx = [a \in Attempts |-> {}]
    /\ writeIdx = [a \in Attempts |-> {}]
    /\ native = [h \in Handles |-> 0]
    /\ nStart = 0
    /\ nEnd = 0
    /\ heap = {}
    /\ delivered = [a \in Attempts |-> <<>>]
    /\ leaked = [a \in Attempts |-> FALSE]

\* ---------------------------------------------------------- module import
\* library names; 0 stands for None
LibNames    == 1..MaxNames
SearchLists == SeqsUpTo(LibNames, MaxSearch)

\* the import has finished: LIBPAM and LIBC are bound, load_library's locals are gone
ModuleLoaded == [state |-> "loaded", lib |-> "", guess |-> 0, given |-> <<>>,
                 names |-> <<>>, k |-> 1, tried |-> <<>>, library |-> 0, loadable |-> {}]

\* the import has not begun; `ok` is the set of names the system can load
NotLoaded(ok) == [ModuleLoaded EXCEPT !.state = "idle", !.loadable = ok]

\* mutant: the find_library guess is tried after the hardcoded names
Candidates_guessLast(guess, given) == IF guess # 0 THEN given \o <<guess>> ELSE given

\* search_names after `search_names.insert(0, guess_path)`
Candidates(guess, given) == IF guess # 0 THEN <<guess>> \o given ELSE given

\* CDLL(name) inside try/except OSError: the library, or None
CDLL(name, ok) == IF name \in ok THEN name ELSE 0

\* the module calls load_library('pam', [...]) and then load_library('c', [...]):
\* library = None; guess_path = find_library(nickname); insert
LoadCall ==
    /\ \/ loader.state = "idle"
       \/ loader.state = "returned" /\ loader.lib = "pam"
    /\ \E guess \in {0} \cup LibNames, given \in SearchLists :
        loader' = [state |-> "loading",
                   lib |-> IF loader.state = "idle" THEN "pam" ELSE "c",
                   guess |-> guess, given |-> given,
                   names |-> Candidates(guess, given), k |-> 1, tried |-> <<>>,
                   library |-> 0, loadable |-> loader.loadable]
    /\ UNCHANGED authVars

\* one iteration of `for name in search_names`
LoadTry ==
    /\ loader.state = "loading"
    /\ loader.k \in DOMAIN loader.names
    /\ LET name == loader.names[loader.k]
           library == CDLL(name, loader.loadable)
       IN  loader' = [loader EXCEPT !.tried = Append(@, name),
                                    !.library = library,
                                    !.k = @ + 1,
                                    !.state = IF library # 0 THEN "returned" ELSE "loading"]
    /\ UNCHANGED authVars

\* the loop is over: if library is None: raise AssertionError
LoadEnd ==
    /\ loader.state = "loading"
    /\ loader.k \notin DOMAIN loader.names
    /\ loader' = [loader EXCEPT !.state = IF loader.library = 0 THEN "raised"
                                          ELSE "returnedNone"]
    /\ UNCHANGED authVars

\* both libraries are loaded: the rest of the module runs and the import ends
LoadDone ==
    /\ loader.state = "returned" /\ loader.lib = "c"
    /\ loader' = ModuleLoaded
    /\ UNCHANGED authVars

\* the module has been imported
Init == AuthInit /\ loader = ModuleLoaded

\* the module is about to be imported
InitLoad == AuthInit /\ \E ok \in SUBSET LibNames : loader = NotLoaded(ok)

\* --------------------------------------------------------------- actions
\* authenticate is entered: handle = PamHandle(), conv = PamConv(my_conv, 0),
\* retval = PAM_START(service, username, conv, handle)
Start(a, pws, maxCalls) ==
    /\ loader.state = "loaded"
    /\ UNCHANGED loader
    /\ pc[a] \in {"idle", "done"}
    /\ calls[a] < maxCalls
    /\ \E pw \in pws, out \in PAM_START(a) :
        /\ password' = [password EXCEPT ![a] = pw]
        /\ retval' = [retval EXCEPT ![a] = out[1]]
        /\ handle' = [handle EXCEPT ![a] = out[2]]
        /\ native' = IF out[2] \in Handles THEN [native EXCEPT ![out[2]] = a] ELSE native
        /\ trace' = [trace EXCEPT ![a] = <<Call("Start", out[2], 0, out[1])>>]
    /\ calls' = [calls EXCEPT ![a] = @ + 1]
    /\ nStart' = nStart + 1
    /\ pc' = [pc EXCEPT ![a] = "started"]
    /\ e' = [e EXCEPT ![a] = 0]
    /\ result' = [result EXCEPT ![a] = FALSE]
    /\ convRet' = [convRet EXCEPT ![a] = 0]
    /\ convCount' = [convCount EXCEPT ![a] = 0]
    /\ raised' = [raised EXCEPT ![a] = FALSE]
    /\ allocFailed' = [allocFailed EXCEPT ![a] = FALSE]
    /\ leaked' = [leaked EXCEPT ![a] = FALSE]
    /\ UNCHANGED <<convVars, nEnd, heap, delivered>>

\* mutant: the start-failure path returns False without calling pam_end
StartFailed_noEnd(a) ==
    /\ UNCHANGED loader
    /\ pc[a] = "started"
    /\ retval[a] # 0
    /\ result' = [result EXCEPT ![a] = FALSE]
    /\ pc' = [pc EXCEPT ![a] = "done"]
    /\ UNCHANGED <<calls, password, handle, retval, e, trace, convVars, convRet,
                   convCount, raised, allocFailed, native, nStart, nEnd, heapVars>>

\* if retval != 0: PAM_END(handle, retval); return False
StartFailed(a) ==
    /\ UNCHANGED loader
    /\ pc[a] = "started"
    /\ retval[a] # 0
    /\ \E es \in Status :
        trace' = [trace EXCEPT ![a] =
                    Append(@, Call("End", StartFailedEndArgs(a)[1], StartFailedEndArgs(a)[2], es))]
    /\ native' = Release(StartFailedEndArgs(a)[1])
    /\ nEnd' = nEnd + 1
    /\ result' = [result EXCEPT ![a] = FALSE]
    /\ pc' = [pc EXCEPT ![a] = "done"]
    /\ UNCHANGED <<calls, password, handle, retval, e, convVars, convRet, convCount,
                   raised, allocFailed, nStart, heapVars>>

\* PAM_AUTHENTICATE(handle, 0) is entered
Authenticate(a) ==
    /\ UNCHANGED loader
    /\ pc[a] = "started"
    /\ retval[a] = 0
    /\ trace' = [trace EXCEPT ![a] = Append(@, Call("Authenticate", handle[a], 0, Pending))]
    /\ pc' = [pc EXCEPT ![a] = "inAuth"]
    /\ UNCHANGED <<calls, password, handle, retval, e, result, convVars, convRet,
                   convCount, raised, allocFailed, native, nStart, nEnd, heapVars>>

\* the native module invokes my_conv: addr = CALLOC(...); p_response[0] = cast(addr, ...)
ConvBegin(a, maxn, maxConv) ==
    /\ UNCHANGED loader
    /\ pc[a] = "inAuth"
    /\ delivered[a] = <<>>
    /\ convCount[a] < maxConv
    /\ \E n \in 0..maxn :
        \E msgs \in MessageArrays(n), arr \in CALLOC(n) :
            /\ n_messages' = [n_messages EXCEPT ![a] = n]
            /\ messages' = [messages EXCEPT ![a] = msgs]
            /\ p_response' = [p_response EXCEPT ![a] = arr]
            /\ allocFailed' = [allocFailed EXCEPT ![a] = @ \/ (arr.null /\ n > 0)]
            /\ heap' = IF arr.null THEN heap ELSE heap \cup {arr.addr}
    /\ idx' = [idx EXCEPT ![a] = 0]
    /\ readIdx' = [readIdx EXCEPT ![a] = {}]
    /\ writeIdx' = [writeIdx EXCEPT ![a] = {}]
    /\ raised' = [raised EXCEPT ![a] = FALSE]
    /\ convCount' = [convCount EXCEPT ![a] = @ + 1]
    /\ pc' = [pc EXCEPT ![a] = "conv"]
    /\ UNCHANGED <<calls, password, handle, retval, e, result, trace, convRet,
                   native, nStart, nEnd, delivered, leaked>>

\* my_conv has left: its locals are gone
ConvLeave(a) ==
    /\ n_messages' = [n_messages EXCEPT ![a] = 0]
    /\ messages' = [messages EXCEPT ![a] = <<>>]
    /\ p_response' = [p_response EXCEPT ![a] = NoArray]
    /\ idx' = [idx EXCEPT ![a] = 0]
    /\ readIdx' = [readIdx EXCEPT ![a] = {}]
    /\ writeIdx' = [writeIdx EXCEPT ![a] = {}]
    /\ pc' = [pc EXCEPT ![a] = "inAuth"]

\* one iteration of `for i in range(n_messages)`
ConvStep(a) ==
    /\ UNCHANGED loader
    /\ pc[a] = "conv"
    /\ idx[a] \in LoopRange(n_messages[a])
    /\ LET i == idx[a]
       IN  \E style \in (IF i \in DOMAIN messages[a] THEN {messages[a][i]} ELSE Styles) :
             IF style # PAM_PROMPT_ECHO_OFF
             THEN /\ idx' = [idx EXCEPT ![a] = i + 1]
                  /\ readIdx' = [readIdx EXCEPT ![a] = @ \cup {i}]
                  /\ UNCHANGED <<pc, n_messages, messages, p_response, writeIdx,
                                 convRet, raised, allocFailed, heap, leaked>>
             ELSE \E pw_copy \in STRDUP(Closure(a), Encode(ClosedPassword(a))) :
                  /\ allocFailed' = [allocFailed EXCEPT ![a] = @ \/ pw_copy.null]
                  /\ IF p_response[a].null
                     THEN \* p_response.contents[i] on a NULL pointer raises ValueError;
                          \* ctypes drops the exception and the status is whatever is
                          \* in the result slot
                          /\ \E r \in Status : convRet' = [convRet EXCEPT ![a] = r]
                          /\ raised' = [raised EXCEPT ![a] = TRUE]
                          \* pw_copy goes out of scope: the copy stays allocated
                          \* and nothing refers to it
                          /\ leaked' = [leaked EXCEPT ![a] = @ \/ ~pw_copy.null]
                          /\ UNCHANGED heap
                          /\ ConvLeave(a)
                     ELSE /\ p_response' = [p_response EXCEPT ![a].slots =
                                IF i \in DOMAIN @
                                THEN [@ EXCEPT ![i] = [resp |-> pw_copy, resp_retcode |-> 0]]
                                ELSE @]
                          /\ idx' = [idx EXCEPT ![a] = i + 1]
                          /\ readIdx' = [readIdx EXCEPT ![a] = @ \cup {i}]
                          /\ writeIdx' = [writeIdx EXCEPT ![a] = @ \cup {i}]
                          /\ heap' = IF pw_copy.null THEN heap ELSE heap \cup {pw_copy.addr}
                          /\ UNCHANGED <<pc, n_messages, messages, convRet, raised, leaked>>
    /\ UNCHANGED <<calls, password, handle, retval, e, result, trace, convCount,
                   native, nStart, nEnd, delivered>>

\* the addresses the native module finds in the response array r: those of the
\* non-NULL texts, slot by slot
RECURSIVE TextAddrs(_, _)
TextAddrs(r, k) ==
    IF k \notin DOMAIN r.slots THEN <<>>
    ELSE (IF r.slots[k].resp.null THEN <<>> ELSE <<r.slots[k].resp.addr>>)
         \o TextAddrs(r, k + 1)

\* what my_conv hands over through p_response[0]: the texts and the array
Handover(r) == IF r.null THEN <<>> ELSE TextAddrs(r, 0) \o <<r.addr>>

\* return 0
ConvReturn(a) ==
    /\ UNCHANGED loader
    /\ pc[a] = "conv"
    /\ idx[a] \notin LoopRange(n_messages[a])
    /\ convRet' = [convRet EXCEPT ![a] = 0]
    /\ delivered' = [delivered EXCEPT ![a] = Handover(p_response[a])]
    /\ ConvLeave(a)
    /\ UNCHANGED <<calls, password, handle, retval, e, result, trace, convCount,
                   raised, allocFailed, native, nStart, nEnd, heap, leaked>>

\* the native module has used the answers: it frees each non-NULL text once and
\* the array once
NativeFree(a) ==
    /\ UNCHANGED loader
    /\ pc[a] = "inAuth"
    /\ delivered[a] # <<>>
    /\ heap' = heap \ {delivered[a][k] : k \in DOMAIN delivered[a]}
    /\ delivered' = [delivered EXCEPT ![a] = <<>>]
    /\ UNCHANGED <<pc, calls, password, handle, retval, e, result, trace, convVars,
                   convRet, convCount, raised, allocFailed, native, nStart, nEnd, leaked>>

\* mutant: a rejected attempt is retried, pam_authenticate is called again
AuthReturn_retry(a) ==
    /\ UNCHANGED loader
    /\ pc[a] = "inAuth"
    /\ delivered[a] = <<>>
    /\ \E st \in Status :
        /\ retval' = [retval EXCEPT ![a] = st]
        /\ trace' = [trace EXCEPT ![a] =
                IF st = 0 \/ Len(@) > 2
                THEN [@ EXCEPT ![Len(@)].ret = st]
                ELSE Append([@ EXCEPT ![Len(@)].ret = st],
                            Call("Authenticate", handle[a], 0, Pending))]
        /\ pc' = [pc EXCEPT ![a] = IF st = 0 \/ Len(trace[a]) > 2 THEN "authDone" ELSE "inAuth"]
    /\ UNCHANGED <<calls, password, handle, e, result, convVars, convRet, convCount,
                   raised, allocFailed, native, nStart, nEnd, heapVars>>

\* PAM_AUTHENTICATE returns: retval = its status
AuthReturn(a) ==
    /\ UNCHANGED loader
    /\ pc[a] = "inAuth"
    /\ delivered[a] = <<>>
    /\ \E st \in Status :
        /\ retval' = [retval EXCEPT ![a] = st]
        /\ trace' = [trace EXCEPT ![a][Len(trace[a])].ret = st]
    /\ pc' = [pc EXCEPT ![a] = "authDone"]
    /\ UNCHANGED <<calls, password, handle, e, result, convVars, convRet, convCount,
                   raised, allocFailed, native, nStart, nEnd, heapVars>>

\* e = PAM_END(handle, retval); return retval == 0 and e == 0
End(a) ==
    /\ UNCHANGED loader
    /\ pc[a] = "authDone"
    /\ \E es \in Status :
        /\ e' = [e EXCEPT ![a] = es]
        /\ trace' = [trace EXCEPT ![a] = Append(@, Call("End", EndArgs(a)[1], EndArgs(a)[2], es))]
        /\ result' = [result EXCEPT ![a] = ReturnValue(retval[a], es)]
    /\ native' = Release(EndArgs(a)[1])
    /\ nEnd' = nEnd + 1
    /\ pc' = [pc EXCEPT ![a] = "done"]
    /\ UNCHANGED <<calls, password, handle, retval, convVars, convRet, convCount,
                   raised, allocFailed, nStart, heapVars>>

\* one thread calling authenticate again and again
Next ==
    \E a \in SeqAttempts :
        \/ Start(a, Passwords, MaxCalls)
        \/ StartFailed(a)
        \/ Authenticate(a)
        \/ ConvBegin(a, MaxMsgs, MaxConv)
        \/ ConvStep(a)
        \/ ConvReturn(a)
        \/ NativeFree(a)
        \/ AuthReturn(a)
        \/ End(a)

Spec == Init /\ [][Next]_vars

\* two threads, each calling authenticate once with one callback invocation of
\* at most one message, interleaved at every step
NextConc ==
    \E a \in Attempts :
        \/ Start(a, ConcPasswords, 1)
        \/ StartFailed(a)
        \/ Authenticate(a)
        \/ ConvBegin(a, 1, 1)
        \/ ConvStep(a)
        \/ ConvReturn(a)
        \/ NativeFree(a)
        \/ AuthReturn(a)
        \/ End(a)

SpecConc == Init /\ [][NextConc]_vars

\* the import of the module, and a first authenticate call once it has ended
NextLoad ==
    \/ LoadCall
    \/ LoadTry
    \/ LoadEnd
    \/ LoadDone
    \/ \E a \in SeqAttempts : Start(a, {<<>>}, 1)

SpecLoad == InitLoad /\ [][NextLoad]_vars

\* ---------------------------------------------------------------- claims
MidCall(a)  == pc[a] \in {"started", "inAuth", "conv", "authDone"}
Ops(a)      == [k \in DOMAIN trace[a] |-> trace[a][k].op]
\* my_conv of attempt a has finished its loop and is about to return 0
AtReturn(a) == pc[a] = "conv" /\ idx[a] \notin LoopRange(n_messages[a])

\* C1: authenticate returns True exactly when pam_start, pam_authenticate and
\* pam_end all returned 0; a nonzero status of any of the three gives False.
C1_ResultIffAllZero ==
    \A a \in Attempts :
        pc[a] = "done" =>
            (result[a] <=> /\ Len(trace[a]) = 3
                           /\ \A k \in 1..3 : trace[a][k].ret = 0)

\* a call in which only pam_end failed has returned False
C1_Witness ==
    /\ pc[1] = "done" /\ Len(trace[1]) = 3
    /\ trace[1][1].ret = 0 /\ trace[1][2].ret = 0 /\ trace[1][3].ret # 0
    /\ result[1] = FALSE

\* C2: when pam_start returns nonzero, pam_authenticate is never called, pam_end
\* is called exactly once with the status and the handle of pam_start, and
\* authenticate returns False whatever pam_end returns.
C2_StartFailure ==
    \A a \in Attempts :
        (trace[a] # <<>> /\ trace[a][1].ret # 0) =>
            /\ \A k \in DOMAIN trace[a] : trace[a][k].op # "Authenticate"
            /\ Len(trace[a]) <= 2
            /\ pc[a] = "done" =>
                /\ Ops(a) = <<"Start", "End">>
                /\ trace[a][2].arg = trace[a][1].ret
                /\ trace[a][2].handle = trace[a][1].handle
                /\ result[a] = FALSE

\* a call whose pam_start failed and whose pam_end returned 0 has returned
C2_Witness ==
    /\ pc[1] = "done" /\ Len(trace[1]) = 2
    /\ trace[1][1].ret # 0 /\ trace[1][2].ret = 0

\* C3: when pam_start returns 0 the call invokes Start, Authenticate, End in
\* that order, each exactly once, whatever pam_authenticate returns; nothing is
\* invoked twice and nothing follows End.
C3_StartAuthEndOnce ==
    \A a \in Attempts :
        (trace[a] # <<>> /\ trace[a][1].ret = 0) =>
            /\ Ops(a) \in {<<"Start">>, <<"Start", "Authenticate">>,
                           <<"Start", "Authenticate", "End">>}
            /\ pc[a] = "started" => Len(trace[a]) = 1
            /\ pc[a] \in {"inAuth", "conv", "authDone"} => Len(trace[a]) = 2
            /\ pc[a] = "done" => Len(trace[a]) = 3

\* a call whose pam_authenticate rejected the credentials has returned
C3_Witness ==
    /\ pc[1] = "done" /\ Len(trace[1]) = 3
    /\ trace[1][1].ret = 0 /\ trace[1][2].ret # 0

\* C4: when pam_start returns 0, pam_end is given exactly the status
\* pam_authenticate returned; when all three return 0 authenticate returns True
\* and pam_end was called exactly once.
C4_EndGetsAuthStatus ==
    \A a \in Attempts :
        (pc[a] = "done" /\ trace[a][1].ret = 0) =>
            /\ trace[a][Len(trace[a])].op = "End"
            /\ trace[a][Len(trace[a])].arg = trace[a][2].ret
            /\ (\A k \in DOMAIN trace[a] : trace[a][k].ret = 0) =>
                /\ result[a] = TRUE
                /\ Cardinality({k \in DOMAIN trace[a] : trace[a][k].op = "End"}) = 1

\* pam_end was called after pam_authenticate returned a nonzero status
C4_Witness ==
    /\ pc[1] = "done" /\ Len(trace[1]) = 3
    /\ trace[1][2].ret # 0 /\ trace[1][3].arg = trace[1][2].ret
    /\ trace[1][3].ret = 0

\* C5: pam_end has been called once for every pam_start whose call has returned
\* (the calls still running are the only difference), the native module holds no
\* handle for a call that has returned, and a call with rejected credentials
\* returns False.
C5_EveryStartIsEnded ==
    /\ nStart - nEnd = Cardinality({a \in Attempts : MidCall(a)})
    /\ \A h \in Handles :
        native[h] # 0 => MidCall(native[h]) /\ handle[native[h]] = h
    /\ \A a \in Attempts :
        (pc[a] = "done" /\ Len(trace[a]) = 3 /\ trace[a][2].ret # 0) => result[a] = FALSE

\* the second of two calls has returned after rejected credentials
C5_Witness ==
    /\ calls[1] = 2 /\ pc[1] = "done"
    /\ Len(trace[1]) = 3 /\ trace[1][2].ret # 0
    /\ nStart = 2 /\ nEnd = 2

\* C6: when my_conv returns, every PAM_PROMPT_ECHO_OFF message has a response
\* whose text is a copy of the password given to authenticate with return code
\* 0, and every other message has a zeroed response.
C6_AnswersArePasswordCopies ==
    \A a \in Attempts :
        AtReturn(a) =>
            \A i \in 0..(n_messages[a] - 1) :
                /\ i \in DOMAIN p_response[a].slots
                /\ IF messages[a][i] = PAM_PROMPT_ECHO_OFF
                   THEN /\ ~p_response[a].slots[i].resp.null
                        /\ p_response[a].slots[i].resp.bytes = Encode(password[a])
                        /\ p_response[a].slots[i].resp_retcode = 0
                   ELSE p_response[a].slots[i] = ZeroResponse

\* C7: every my_conv invocation has an allocated response array of exactly
\* n_messages slots stored in p_response, and reads messages and writes slots
\* only at indices below n_messages.
C7_ArrayOfMessageCount ==
    \A a \in Attempts :
        pc[a] = "conv" =>
            /\ (n_messages[a] > 0 => ~p_response[a].null)
            /\ DOMAIN p_response[a].slots = 0..(n_messages[a] - 1)
            /\ readIdx[a] \subseteq 0..(n_messages[a] - 1)
            /\ writeIdx[a] \subseteq 0..(n_messages[a] - 1)

\* C8: the callback of an attempt answers only with copies of that attempt's
\* own password, made for that attempt; every native call of an attempt is
\* given that attempt's own handle, which the native module holds for it and
\* for no other running attempt.
C8_AttemptsAreIsolated ==
    \A a \in Attempts :
        /\ pc[a] = "conv" =>
            \A i \in DOMAIN p_response[a].slots :
                LET r == p_response[a].slots[i].resp
                IN  ~r.null => r.src = a /\ r.bytes = CStr(Encode(password[a]))
        /\ \A k \in DOMAIN trace[a] : trace[a][k].handle = handle[a]
        /\ (MidCall(a) /\ handle[a] # 0) =>
            /\ native[handle[a]] = a
            /\ \A b \in Attempts \ {a} : MidCall(b) => handle[b] # handle[a]

\* both attempts are inside their callbacks, with different passwords, and each
\* has answered a prompt
C8_Witness ==
    /\ pc[1] = "conv" /\ pc[2] = "conv"
    /\ password[1] # password[2]
    /\ \A a \in Attempts : \E i \in DOMAIN p_response[a].slots :
            ~p_response[a].slots[i].resp.null

\* C9: every my_conv invocation hands status 0 to the native module.
C9_ConvReturnsZero ==
    \A a \in Attempts : convRet[a] = 0

\* C10: a NULL from calloc or strdup is never handed over as the answer to a
\* password prompt, and the attempt in which it happened does not succeed.
C10_AllocationFailureIsFatal ==
    \A a \in Attempts :
        /\ AtReturn(a) =>
            \A i \in DOMAIN p_response[a].slots :
                messages[a][i] = PAM_PROMPT_ECHO_OFF => ~p_response[a].slots[i].resp.null
        /\ (pc[a] = "done" /\ allocFailed[a]) => result[a] = FALSE

\* the addresses attempt a refers to: those my_conv has in its response array
\* and those the native module got and has yet to free
Refs(a)     == Handover(p_response[a]) \o delivered[a]
Distinct(s) == \A j, k \in DOMAIN s : j # k => s[j] # s[k]
AddrSet(s)  == {s[k] : k \in DOMAIN s}

\* C11: every response text and every response array is a buffer of its own,
\* allocated and not freed when it is handed over, so the native module's one
\* free per text and per array frees nothing twice; and no allocation is left
\* without anyone to free it.
C11_EveryBufferFreedOnce ==
    /\ \A a \in Attempts : Distinct(Refs(a)) /\ AddrSet(Refs(a)) \subseteq heap
    /\ \A a, b \in Attempts : a # b => AddrSet(Refs(a)) \cap AddrSet(Refs(b)) = {}
    /\ heap \subseteq UNION {AddrSet(Refs(a)) : a \in Attempts}
    /\ \A a \in Attempts : ~leaked[a]

C13_HandleIsTheOneStartWrote ==
    \A a \in Attempts :
        IF trace[a] = <<>>
        THEN handle[a] = 0
        ELSE /\ trace[a][1].op = "Start"
             /\ handle[a] = trace[a][1].handle
             /\ \A k \in DOMAIN trace[a] : trace[a][k].handle = trace[a][1].handle
             /\ Cardinality({k \in DOMAIN trace[a] : trace[a][k].op = "End"}) <= 1

\* a call has ended the session on the handle pam_start gave it
C13_Witness ==
    /\ pc[1] = "done" /\ Len(trace[1]) = 3
    /\ trace[1][3].op = "End" /\ trace[1][3].handle \in Handles

\* C14: load_library tries the find_library guess first, when there is one,
\* then search_names in order; it returns the first candidate that loads and
\* tries none after it; when no candidate loads it raises; and authenticate is
\* never entered unless the import has ended with both libraries loaded.
C14_FirstCandidateThatLoads ==
    LET expected == IF loader.guess # 0 THEN <<loader.guess>> \o loader.given
                    ELSE loader.given
        loads    == {k \in DOMAIN expected : expected[k] \in loader.loadable}
    IN  /\ loader.state # "returnedNone"
        /\ loader.state \in {"loading", "returned", "raised"} =>
            /\ Len(loader.tried) <= Len(expected)
            /\ \A k \in DOMAIN loader.tried : loader.tried[k] = expected[k]
        /\ loader.state = "loading" =>
            \A k \in DOMAIN loader.tried : loader.tried[k] \notin loader.loadable
        /\ loader.state = "returned" =>
            /\ loads # {}
            /\ \A k \in loads : Len(loader.tried) <= k
            /\ Len(loader.tried) \in loads
            /\ loader.library = expected[Len(loader.tried)]
        /\ loader.state = "raised" =>
            /\ loads = {}
            /\ loader.tried = expected
        /\ \A a \in Attempts : pc[a] # "idle" => loader.state = "loaded"

\* load_library has returned the second of three candidates, the guess having
\* failed to load
C14_Witness ==
    /\ loader.state = "returned"
    /\ loader.guess # 0 /\ Len(loader.given) = 2
    /\ Len(loader.tried) = 2

\* no candidate at all: load_library has raised
C14_WitnessNone ==
    loader.state = "raised" /\ loader.guess = 0 /\ loader.given = <<>>

====
